---- MODULE Spec2Model ----
(***************************************************************************)
(* A model of the Plane.so API client (src/src/api/plane_client.py):       *)
(* client construction with its probe request, the request/retry loop of   *)
(* PlaneClient._make_request, and the entity operations built on it,       *)
(* against a remote service that answers each request with a response or   *)
(* a transport failure.                                                    *)
(***************************************************************************)
EXTENDS Integers, Sequences, FiniteSets, TLC

\* ------------------------------------------------------------- constants

\* self.max_retries and self.retry_delay of PlaneClient.__init__
max_retries == 3
retry_delay == 5
\* the minimum length of PLANE_API_KEY accepted by __init__
MinKeyLen == 32

\* ---------------------------------------------------------------- bounds

\* entity operations performed one after the other by the caller
MaxCalls == 2

\* module names the caller creates
Names == {"X", "Y"}

\* ------------------------------------------------- responses of the service

\* A response body, by what the client reads of it: whether it is empty,
\* whether json parses it, whether its text holds "Module with this name
\* already exists", and the value under "id" (0: no such key).
EmptyBody == [empty |-> TRUE, json |-> FALSE, exists |-> FALSE, id |-> 0]

TextBody(ex) == [empty |-> FALSE, json |-> FALSE, exists |-> ex, id |-> 0]

JsonBody(ex, i) == [empty |-> FALSE, json |-> TRUE, exists |-> ex, id |-> i]

\* Retry-After header values: absent, delay-seconds, and values int() rejects
\* or time.sleep() rejects
NoHeader == "absent"

RetryAfterValues == {NoHeader, "2", "7", "-1", "Wed, 21 Oct 2015 07:28:00 GMT"}

Response(st, ra, b) ==
    [kind |-> "response", status |-> st, retryAfter |-> ra, body |-> b, err |-> "none"]

\* requests.request raised instead of returning a response
Failure(e) ==
    [kind |-> "failure", status |-> 0, retryAfter |-> NoHeader, body |-> EmptyBody, err |-> e]

TransportErrors == {"ConnectionError", "Timeout"}

\* statuses that carry nothing but the status itself
PlainErrorStatuses == {401, 404, 500}

NoResponse == Failure("none")

\* ------------------------------------------------- exceptions and results

Exc(t, st, b, c) == [type |-> t, status |-> st, body |-> b, cause |-> c]

NoExc == Exc("none", 0, EmptyBody, "none")

\* a dict returned by _make_request: the value under "id" (0: no such key)
Dict(i) == [id |-> i]

EmptyDict == Dict(0)

Returned(v) == [kind |-> "return", value |-> v, exc |-> NoExc]

Raised(e) == [kind |-> "raise", value |-> EmptyDict, exc |-> e]

NoOutcome == [kind |-> "none", value |-> EmptyDict, exc |-> NoExc]

\* what one pass through the loop body decides
Sleep(d) == [act |-> "sleep", delay |-> d, out |-> NoOutcome]

Finish(o) == [act |-> "finish", delay |-> 0, out |-> o]

\* ------------------------------------------ PlaneClient._make_request, pure

\* int(text): the texts int() accepts
IsIntText(s) == s \in {"2", "7", "-1"}

IntOf(s) == CASE s = "2" -> 2 [] s = "7" -> 7 [] s = "-1" -> -1 [] OTHER -> 0

\* response.headers.get('Retry-After', self.retry_delay), before int()
RetryAfterUsesFixedDelay(r) == retry_delay

RetryAfter(r) == IF r.retryAfter = NoHeader THEN retry_delay ELSE IntOf(r.retryAfter)

\* the 429 branch: int() of a text that is no integer and time.sleep() of a
\* negative number raise ValueError; otherwise sleep, then retries += 1
RateLimited(r) ==
    IF r.retryAfter # NoHeader /\ ~IsIntText(r.retryAfter)
    THEN Finish(Raised(Exc("ValueError", r.status, r.body, "int")))
    ELSE IF RetryAfter(r) < 0
    THEN Finish(Raised(Exc("ValueError", r.status, r.body, "sleep")))
    ELSE Sleep(RetryAfter(r))

\* response.status_code == 400 and "Module with this name already exists" in error_body
ModuleExistsNever(r) == FALSE

IsModuleExists(r) == r.status = 400 /\ r.body.exists

\* the 400/403 branch
ClientError(r) ==
    IF IsModuleExists(r)
    THEN IF ~r.body.json
         THEN Raised(Exc("JSONDecodeError", r.status, r.body, "json.loads"))
         ELSE IF r.body.id = 0
         THEN Raised(Exc("KeyError", r.status, r.body, "id"))
         ELSE Returned(Dict(r.body.id))
    ELSE Raised(Exc("ApiError", r.status, r.body, "none"))

\* requests.Response.raise_for_status
RaisesForStatus(status) == 400 <= status /\ status < 600

\* what response.json() raises on a body that is no JSON: a RequestException
\* since requests 2.27, the json module's own error before
JsonErrorTypes == {"RequestsJSONDecodeError", "JSONDecodeError"}

\* raise_for_status and what follows it
Success(method, r, jsonErr) ==
    IF RaisesForStatus(r.status)
    THEN Raised(Exc("HTTPError", r.status, r.body, "none"))
    ELSE IF method = "DELETE" \/ r.body.empty
    THEN Returned(EmptyDict)
    ELSE IF ~r.body.json
    THEN Raised(Exc(jsonErr, r.status, r.body, "response.json"))
    ELSE Returned(Dict(r.body.id))

\* the body of the try block, from the request's result on
TryBody(method, r, jsonErr) ==
    IF r.kind = "failure"
    THEN Finish(Raised(Exc(r.err, 0, EmptyBody, "none")))
    ELSE IF r.status = 429
    THEN RateLimited(r)
    ELSE IF r.status \in {400, 403}
    THEN Finish(ClientError(r))
    ELSE Finish(Success(method, r, jsonErr))

\* except RequestException: the exception types that clause catches
CatchesEveryException(t) == t # "none"

IsRequestException(t) ==
    t \in {"ConnectionError", "Timeout", "HTTPError", "RequestsJSONDecodeError"}

\* if retries < self.max_retries - 1
MayRetryOffByOne(n) == n < max_retries

MayRetry(n) == n < max_retries - 1

\* the except clause applied to what the try block did
ExceptClause(step, n) ==
    IF step.act = "finish" /\ step.out.kind = "raise"
       /\ IsRequestException(step.out.exc.type)
    THEN IF MayRetry(n)
         THEN Sleep(retry_delay)
         ELSE Finish(Raised(Exc("RetriesFailed", step.out.exc.status,
                                step.out.exc.body, step.out.exc.type)))
    ELSE step

\* one pass through the loop body for the response r
LoopBody(method, r, n, jsonErr) == ExceptClause(TryBody(method, r, jsonErr), n)

\* the statements after the loop
LoopExitWithoutRaise == NoOutcome

LoopExit == Raised(Exc("MaxRetries", 0, EmptyBody, "none"))

\* ------------------------------------------------------ entity operations

\* the entity operations that make one request each, with the method and the
\* endpoint (under /workspaces/{workspace}/projects/{project}/) of the request
Operations ==
    {"get_modules", "create_module", "create_comment",
     "link_issue_to_module", "delete_issue"}

MethodOf(o) ==
    CASE o = "get_modules" -> "GET"
      [] o = "create_module" -> "POST"
      [] o = "create_comment" -> "POST"
      [] o = "link_issue_to_module" -> "POST"
      [] o = "delete_issue" -> "DELETE"

EndpointOf(o) ==
    CASE o = "get_modules" -> "modules/"
      [] o = "create_module" -> "modules/"
      [] o = "create_comment" -> "issues/{issue_id}/comments/"
      [] o = "link_issue_to_module" -> "modules/{module_id}/module-issues/"
      [] o = "delete_issue" -> "issues/{issue_id}/"

\* the request an operation hands to _make_request; name is the module name
\* of create_module ("" for the others)
RequestOf(o, name) ==
    [method |-> MethodOf(o), endpoint |-> EndpointOf(o), data |-> name]

NoRequest == [method |-> "none", endpoint |-> "none", data |-> ""]

\* hasattr(e, 'response'): the exception types that have the attribute
HasResponseAttr(t) == IsRequestException(t)

\* create_module: response['id'], and its except clause
CreateModuleResult(out) ==
    IF out.kind = "return"
    THEN IF out.value.id = 0
         THEN Raised(Exc("KeyError", 0, EmptyBody, "id"))
         ELSE Returned(Dict(out.value.id))
    ELSE IF HasResponseAttr(out.exc.type) /\ out.exc.status = 400
            /\ out.exc.body.json /\ out.exc.body.id # 0
    THEN Returned(Dict(out.exc.body.id))
    ELSE out

\* what the operation gives its caller for what _make_request gave it
OperationResult(o, out) ==
    IF o = "create_module" THEN CreateModuleResult(out) ELSE out

\* ------------------------------------------------------ the remote service

IsModuleCreation(rq) == rq.method = "POST" /\ rq.endpoint = "modules/"

\* the identifier the service gives the next module it creates
NextModuleId(mods) == 1 + Cardinality({n \in Names : mods[n] # 0})

\* answers that the service and the network may give to any request and that
\* change nothing on the service
Faults ==
    {Failure(e) : e \in TransportErrors}
    \cup {Response(st, NoHeader, TextBody(FALSE)) : st \in PlainErrorStatuses}
    \cup {Response(429, ra, TextBody(FALSE)) : ra \in RetryAfterValues}
    \cup {Response(403, NoHeader, b) : b \in {TextBody(FALSE), JsonBody(TRUE, 1)}}
    \cup {Response(400, NoHeader, JsonBody(FALSE, 0))}

\* answers to a request that is no module creation: any success body and any
\* 400 body
OtherAnswers ==
    {Response(200, NoHeader, b) :
        b \in {EmptyBody, TextBody(FALSE), JsonBody(FALSE, 0), JsonBody(FALSE, 1)}}
    \cup {Response(400, NoHeader, b) :
        b \in {TextBody(TRUE), JsonBody(TRUE, 0), JsonBody(TRUE, 1)}}

\* ------------------------------------------------------------------ state

VARIABLES
    cfg,        \* the environment: key length (-1: unset), workspace, project
    cpc,        \* construction: "new", "keyok", "idsok", "probing", "ready", "failed"
    cerr,       \* what construction raised ("none": nothing)
    probe,      \* the probe's answer (NoResponse: none yet)
    jsonError,  \* the exception type response.json() raises in this build
    pc,         \* "idle", "loop", "await", "sleep", "done"
    op,         \* the operation in progress ("none": none)
    req,        \* the request _make_request was called with
    retries,    \* the local variable retries
    sent,       \* requests put on the wire in this call (or by the probe), with the time
    resps,      \* the answers received in this call
    now,        \* seconds since the call started
    wakeAt,     \* the time the sleep in progress ends
    result,     \* how _make_request ended
    modules,    \* the service: module name -> identifier (0: no such module)
    cmLog,      \* create_module calls finished: name, last answer, result
    calls,      \* operations finished
    fpc,        \* the statement a multi-request operation or main is at ("idle": none runs)
    arg,        \* what it was called with, or the listing it is working through
    loc,        \* its local variables
    wire,       \* the requests it has made: method, endpoint, identifier in the path
    env,   \* what the service holds: the listings it may answer with
    logs,       \* what it has logged: warnings and errors
    fres        \* how it ended

vars ==
    <<cfg, cpc, cerr, probe, jsonError, pc, op, req, retries, sent, resps, now,
      wakeAt, result, modules, cmLog, calls, fpc, arg, loc, wire, env,
      logs, fres>>

flowVars == <<fpc, arg, loc, wire, env, logs, fres>>

consVars == <<cfg, cpc, cerr, probe>>

reqVars == <<pc, op, req, retries, resps, now, wakeAt, result, modules, cmLog, calls>>

\* os.getenv of a variable that is not set
Unset == "<unset>"

\* a configuration that __init__ accepts
ValidCfg == [key |-> MinKeyLen, workspace |-> "ws", project |-> "proj"]

\* no operation in progress
RequestInit ==
    /\ jsonError \in JsonErrorTypes
    /\ pc = "idle"
    /\ op = "none"
    /\ req = NoRequest
    /\ retries = 0
    /\ sent = <<>>
    /\ resps = <<>>
    /\ now = 0
    /\ wakeAt = 0
    /\ result = NoOutcome
    /\ modules = [n \in Names |-> 0]
    /\ cmLog = <<>>
    /\ calls = 0

NoLogs == [warnings |-> 0, errors |-> 0]

\* no multi-request operation in progress
FlowIdle ==
    /\ fpc = "idle"
    /\ arg = "none"
    /\ loc = "none"
    /\ wire = <<>>
    /\ env = <<>>
    /\ logs = NoLogs
    /\ fres = NoOutcome

\* the state after a successful construction
Init ==
    /\ cfg = ValidCfg
    /\ cpc = "ready"
    /\ cerr = "none"
    /\ probe = Response(200, NoHeader, JsonBody(FALSE, 1))
    /\ RequestInit
    /\ FlowIdle

\* --------------------------------------------- _make_request, step by step

\* while retries < self.max_retries
WhileCondition(n) == n < max_retries

\* an entity operation starts: _make_request is entered with retries = 0
Call(o, name) ==
    /\ cpc = "ready"
    /\ pc = "idle"
    /\ calls < MaxCalls
    /\ op' = o
    /\ req' = RequestOf(o, name)
    /\ retries' = 0
    /\ sent' = <<>>
    /\ resps' = <<>>
    /\ now' = 0
    /\ wakeAt' = 0
    /\ result' = NoOutcome
    /\ pc' = "loop"
    /\ UNCHANGED <<consVars, flowVars, jsonError, modules, cmLog, calls>>

\* the loop condition holds: requests.request puts the request on the wire
Send ==
    /\ pc = "loop"
    /\ WhileCondition(retries)
    /\ sent' = Append(sent, [req |-> req, at |-> now])
    /\ pc' = "await"
    /\ UNCHANGED <<consVars, flowVars, jsonError, op, req, retries, resps, now, wakeAt,
                   result, modules, cmLog, calls>>

\* the loop condition fails: the statements after the loop
Exhausted ==
    /\ pc = "loop"
    /\ ~WhileCondition(retries)
    /\ result' = LoopExit
    /\ pc' = "done"
    /\ UNCHANGED <<consVars, flowVars, jsonError, op, req, retries, sent, resps, now,
                   wakeAt, modules, cmLog, calls>>

\* the request in flight is answered by r and the service is left as mods:
\* the rest of the loop body runs, up to a sleep, a return or a raise
Receive(r, mods) ==
    /\ pc = "await"
    /\ resps' = Append(resps, r)
    /\ modules' = mods
    /\ LET step == LoopBody(req.method, r, retries, jsonError)
       IN IF step.act = "sleep"
          THEN /\ wakeAt' = now + step.delay
               /\ pc' = "sleep"
               /\ UNCHANGED result
          ELSE /\ result' = step.out
               /\ pc' = "done"
               /\ UNCHANGED wakeAt
    /\ UNCHANGED <<consVars, flowVars, jsonError, op, req, retries, sent, now, cmLog, calls>>

\* the service creates the module of a module-creation request and answers
\* with its new identifier, or the answer is lost on the way back
ServiceCreates ==
    /\ pc = "await"
    /\ IsModuleCreation(req)
    /\ modules[req.data] = 0
    /\ LET i == NextModuleId(modules)
       IN \E r \in {Response(201, NoHeader, JsonBody(FALSE, i))}
                   \cup {Failure(e) : e \in TransportErrors} :
              Receive(r, [modules EXCEPT ![req.data] = i])

\* the service refuses to create a module whose name is taken and names the
\* module that has it
ServiceExists ==
    /\ pc = "await"
    /\ IsModuleCreation(req)
    /\ modules[req.data] # 0
    /\ Receive(Response(400, NoHeader, JsonBody(TRUE, modules[req.data])), modules)

\* any request may fail on the way or be refused
ServiceFault ==
    /\ pc = "await"
    /\ \E r \in Faults : Receive(r, modules)

\* a request that is no module creation gets any answer
ServiceOther ==
    /\ pc = "await"
    /\ ~IsModuleCreation(req)
    /\ \E r \in OtherAnswers : Receive(r, modules)

\* retries += 1
NextRetries(n) == n + 1

\* time.sleep returns, then retries += 1 and continue
Wake ==
    /\ pc = "sleep"
    /\ now' = wakeAt
    /\ retries' = NextRetries(retries)
    /\ pc' = "loop"
    /\ UNCHANGED <<consVars, flowVars, jsonError, op, req, sent, resps, wakeAt, result,
                   modules, cmLog, calls>>

\* the last answer of a create_module call, as the service meant it
LastAnswer(rs) ==
    IF rs = <<>> THEN "none"
    ELSE LET r == rs[Len(rs)]
         IN IF r.kind = "response" /\ r.status = 201 THEN "created"
            ELSE IF r.kind = "response" /\ r.status = 400 /\ r.body.exists
            THEN "exists"
            ELSE "other"

\* what the log keeps of a finished create_module call: the name, the last
\* answer, and the identifier returned (0: the call raised)
LogEntry(name, last, out) ==
    [name |-> name, last |-> last,
     id |-> IF out.kind = "return" THEN out.value.id ELSE 0]

\* _make_request has returned or raised: the operation ends with its own result
Return ==
    /\ pc = "done"
    /\ cmLog' = IF op = "create_module"
                THEN Append(cmLog, LogEntry(req.data, LastAnswer(resps),
                                            OperationResult(op, result)))
                ELSE cmLog
    /\ calls' = calls + 1
    /\ pc' = "idle"
    /\ op' = "none"
    /\ req' = NoRequest
    /\ retries' = 0
    /\ sent' = <<>>
    /\ resps' = <<>>
    /\ now' = 0
    /\ wakeAt' = 0
    /\ result' = NoOutcome
    /\ UNCHANGED <<consVars, flowVars, jsonError, modules>>

Next ==
    \/ \E o \in Operations \ {"create_module"} : Call(o, "")
    \/ \E name \in Names : Call("create_module", name)
    \/ Send
    \/ Exhausted
    \/ ServiceCreates
    \/ ServiceExists
    \/ ServiceFault
    \/ ServiceOther
    \/ Wake
    \/ Return

Spec == Init /\ [][Next]_vars

\* ------------------------------------------------- PlaneClient.__init__

\* the environments a client may be constructed in: the key by its length
\* (-1: PLANE_API_KEY is not set), the workspace and the project
KeyLengths == {-1, 0, 1, MinKeyLen - 1, MinKeyLen, MinKeyLen + 1}

Cfgs ==
    [key : KeyLengths, workspace : {Unset, "", "ws"}, project : {Unset, "", "proj"}]

\* not self.api_key or len(self.api_key) < 32
KeyInvalidOnlyIfEmpty(k) == k <= 0

KeyInvalid(k) == k <= 0 \/ k < MinKeyLen

\* the truth value of an os.getenv result
Truthy(v) == v \notin {Unset, ""}

\* not all([self.workspace_slug, self.project_id])
IdsMissing(c) == ~(Truthy(c.workspace) /\ Truthy(c.project))

\* the request of _validate_api_connection: the project's details
ProbeRequest == [method |-> "GET", endpoint |-> "", data |-> ""]

\* _validate_api_connection from the answer on: what it raises ("none": it returns)
ProbeErrorOnlyOn401(r) ==
    IF r.kind = "response" /\ r.status = 401
    THEN "ValidationFailed:Authentication"
    ELSE "none"

ProbeError(r) ==
    IF r.kind = "failure" THEN "ValidationFailed:Transport"
    ELSE IF r.status = 401 THEN "ValidationFailed:Authentication"
    ELSE IF RaisesForStatus(r.status) THEN "ValidationFailed:HTTPError"
    ELSE "none"

\* a client is about to be constructed
ConsInit ==
    /\ cfg \in Cfgs
    /\ cpc = "new"
    /\ cerr = "none"
    /\ probe = NoResponse
    /\ RequestInit
    /\ FlowIdle

\* the API key check
ValidateKey ==
    /\ cpc = "new"
    /\ IF KeyInvalid(cfg.key)
       THEN cpc' = "failed" /\ cerr' = "InvalidKeyFormat"
       ELSE cpc' = "keyok" /\ cerr' = cerr
    /\ UNCHANGED <<cfg, probe, jsonError, sent, reqVars, flowVars>>

\* the check of the other required variables
ValidateIds ==
    /\ cpc = "keyok"
    /\ IF IdsMissing(cfg)
       THEN cpc' = "failed" /\ cerr' = "MissingEnv"
       ELSE cpc' = "idsok" /\ cerr' = cerr
    /\ UNCHANGED <<cfg, probe, jsonError, sent, reqVars, flowVars>>

\* _validate_api_connection sends its request
SendProbe ==
    /\ cpc = "idsok"
    /\ sent' = Append(sent, [req |-> ProbeRequest, at |-> now])
    /\ cpc' = "probing"
    /\ UNCHANGED <<cfg, cerr, probe, jsonError, reqVars, flowVars>>

\* the probe is answered: construction ends
ProbeAnswer ==
    /\ cpc = "probing"
    /\ \E r \in Faults \cup OtherAnswers :
          /\ probe' = r
          /\ cerr' = ProbeError(r)
          /\ cpc' = IF ProbeError(r) = "none" THEN "ready" ELSE "failed"
    /\ UNCHANGED <<cfg, jsonError, sent, reqVars, flowVars>>

ConsNext ==
    \/ ValidateKey
    \/ ValidateIds
    \/ SendProbe
    \/ ProbeAnswer

SpecCons == ConsInit /\ [][ConsNext]_vars

\* ----------------------------------------------------------------- claims

\* what the claims say of an answer
IsTransportFailure(r) == r.kind = "failure"

IsStatus(r, st) == r.kind = "response" /\ r.status = st

\* a non-success status other than 429, 400 and 403
IsOtherErrorStatus(r) ==
    r.kind = "response" /\ r.status >= 400 /\ r.status \notin {429, 400, 403}

\* a success status with a body the client can read
IsSuccessful(r) ==
    r.kind = "response" /\ r.status < 400 /\ (r.body.empty \/ r.body.json)

\* the result of a successful answer: empty for a delete and for an empty
\* body, the parsed body otherwise
ExpectedResult(method, r) ==
    IF method = "DELETE" \/ r.body.empty THEN Returned(EmptyDict)
    ELSE Returned(Dict(r.body.id))

\* a 429 whose Retry-After is absent or a number of seconds
IsRateLimit(r) ==
    IsStatus(r, 429) /\ r.retryAfter \in {NoHeader, "2", "7"}

\* the wait a rate-limiting answer asks for
SecondsAsked(r) ==
    CASE r.retryAfter = "2" -> 2
      [] r.retryAfter = "7" -> 7
      [] OTHER -> retry_delay

\* C1: an answer with a non-success status other than 429, 400 and 403 ends
\* the call at once with an HTTP error: it is the last answer of the call, no
\* wait and no further send follow it.
C1_OtherStatusRaisesWithoutRetry ==
    \A i \in 1..Len(resps) :
        IsOtherErrorStatus(resps[i]) =>
            /\ i = Len(resps)
            /\ Len(sent) = i
            /\ pc = "done"
            /\ result.kind = "raise"
            /\ result.exc.type = "HTTPError"
            /\ result.exc.status = resps[i].status

\* C2: k < max_retries transport failures followed by a successful answer
\* give the successful result after k+1 sends, each re-send retry_delay
\* seconds after the send before it; max_retries transport failures in a row
\* raise the retry-exhaustion error, which wraps the last failure, after
\* exactly max_retries sends; and a call that got nothing but transport
\* failures does not end before that.
C2_TransportRetries ==
    pc = "done" =>
        LET n == Len(resps)
            failedUpTo(k) == \A i \in 1..k : IsTransportFailure(resps[i])
        IN /\ (n >= 1 /\ failedUpTo(n - 1) /\ IsSuccessful(resps[n])) =>
                  /\ n <= max_retries
                  /\ result = ExpectedResult(req.method, resps[n])
                  /\ Len(sent) = n
                  /\ \A i \in 1..(n - 1) : sent[i + 1].at - sent[i].at = retry_delay
           /\ (n >= 1 /\ failedUpTo(n)) =>
                  /\ n = max_retries
                  /\ Len(sent) = max_retries
                  /\ result.kind = "raise"
                  /\ result.exc.type = "RetriesFailed"
                  /\ result.exc.cause = resps[n].err

\* C2's case: two failures, then a success on the third send
C2_Witness ==
    /\ pc = "done"
    /\ Len(resps) = 3
    /\ IsTransportFailure(resps[1])
    /\ IsTransportFailure(resps[2])
    /\ IsSuccessful(resps[3])
    /\ result.kind = "return"
    /\ sent[3].at = 2 * retry_delay

\* C3: after a 429 answer the next send of the call comes no sooner than the
\* seconds its Retry-After asks for (retry_delay without the header) and is
\* the same request; nothing is in flight during the wait; a 429 answer does
\* not end the call while sends remain; and a successful answer after
\* nothing but 429 answers gives the result it would give as a first answer.
C3_RateLimitWait ==
    /\ \A i \in 1..Len(resps) :
          IsRateLimit(resps[i]) =>
              /\ (i < Len(sent) =>
                      /\ sent[i + 1].at - sent[i].at >= SecondsAsked(resps[i])
                      /\ sent[i + 1].req = sent[i].req)
              /\ (i = Len(resps) /\ pc = "sleep" =>
                      /\ Len(sent) = i
                      /\ wakeAt - sent[i].at >= SecondsAsked(resps[i]))
              /\ (i = Len(resps) /\ pc = "done" => i = max_retries)
    /\ (pc = "done" /\ Len(resps) >= 1) =>
          LET n == Len(resps)
          IN ((\A i \in 1..(n - 1) : IsRateLimit(resps[i])) /\ IsSuccessful(resps[n])) =>
                 result = ExpectedResult(req.method, resps[n])

\* C3's case: Retry-After: 7 on the first answer, a success on the second send
C3_Witness ==
    /\ pc = "done"
    /\ Len(resps) = 2
    /\ IsStatus(resps[1], 429)
    /\ resps[1].retryAfter = "7"
    /\ IsSuccessful(resps[2])
    /\ sent[2].at = 7
    /\ result = Returned(Dict(1))

\* C4: a call never sends more than max_retries times, and a call that got
\* nothing but 429 answers ends only after max_retries sends, with the
\* 'maximum retries exceeded' error.
C4_SharedRetryBound ==
    /\ Len(sent) <= max_retries
    /\ (pc = "done" /\ \A i \in 1..Len(resps) : IsStatus(resps[i], 429)) =>
          /\ Len(resps) = max_retries
          /\ Len(sent) = max_retries
          /\ result.kind = "raise"
          /\ result.exc.type = "MaxRetries"

\* an attempt that ended in an exception the except clause catches: a
\* transport failure, the HTTP error of a status that is not handled before
\* raise_for_status, or a body that requests' json() cannot parse
IsCaughtFailure(method, r, jsonErr) ==
    \/ IsTransportFailure(r)
    \/ IsOtherErrorStatus(r)
    \/ /\ r.kind = "response"
       /\ r.status < 400
       /\ method # "DELETE"
       /\ ~r.body.empty
       /\ ~r.body.json
       /\ jsonErr = "RequestsJSONDecodeError"

\* the call ended by exhausting its retry bound
RetriesExhausted ==
    /\ pc = "done"
    /\ result.kind = "raise"
    /\ result.exc.type \in {"MaxRetries", "RetriesFailed"}

\* C23: a call that ends by exhausting its retry bound made max_retries
\* attempts, whatever mixture of 429 answers and caught failures they were;
\* it raises 'maximum retries exceeded' exactly when the last attempt was
\* answered 429 and 'request failed after N retries' exactly when the last
\* attempt was a caught request failure; and a call whose max_retries-th
\* attempt is a rate-limiting 429 or a caught failure ends in that error.
C23_LastAttemptDecidesError ==
    /\ RetriesExhausted =>
          LET n == Len(resps)
          IN /\ n = max_retries
             /\ Len(sent) = max_retries
             /\ \A i \in 1..(n - 1) :
                   IsStatus(resps[i], 429)
                      \/ IsCaughtFailure(req.method, resps[i], jsonError)
             /\ (result.exc.type = "MaxRetries" <=> IsStatus(resps[n], 429))
             /\ (result.exc.type = "RetriesFailed" <=>
                    IsCaughtFailure(req.method, resps[n], jsonError))
    /\ (pc = "done" /\ Len(resps) = max_retries) =>
          /\ IsRateLimit(resps[max_retries]) =>
                result.kind = "raise" /\ result.exc.type = "MaxRetries"
          /\ IsCaughtFailure(req.method, resps[max_retries], jsonError) =>
                result.kind = "raise" /\ result.exc.type = "RetriesFailed"

\* C23's case: a failure between two 429 answers ends in 'maximum retries
\* exceeded'
C23_Witness ==
    /\ RetriesExhausted
    /\ IsStatus(resps[1], 429)
    /\ IsTransportFailure(resps[2])
    /\ IsStatus(resps[3], 429)
    /\ result.exc.type = "MaxRetries"

\* The client runs its next statement, a sleep ends, and a request in flight
\* is answered or fails: the program is sequential and blocks on each.
ClientStep == Send \/ Exhausted \/ Wake \/ Return

ServiceStep == ServiceCreates \/ ServiceExists \/ ServiceFault \/ ServiceOther

LiveSpec == Init /\ [][Next]_vars /\ WF_vars(ClientStep) /\ WF_vars(ServiceStep)

InCall == pc \in {"loop", "await", "sleep"}

\* C5: every call ends, with a result or with an error and never with
\* neither; until it ends it has no outcome; and at most one send is in
\* flight, none while the call sleeps or has ended.
C5_TerminatesWithOutcome ==
    /\ [](pc = "done" => result.kind \in {"return", "raise"})
    /\ [](InCall => result = NoOutcome)
    /\ [](/\ Len(sent) - Len(resps) \in {0, 1}
          /\ (Len(sent) - Len(resps) = 1 <=> pc = "await"))
    /\ (InCall ~> pc = "done")

\* C5's case: a call that ended after using every send
C5_Witness ==
    /\ pc = "done"
    /\ Len(sent) = max_retries
    /\ result.kind = "raise"
    /\ result.exc.type = "MaxRetries"

\* a 400 or 403 that is not the module-already-exists case
IsClientError(r) ==
    r.kind = "response" /\ r.status \in {400, 403}
    /\ ~(r.status = 400 /\ r.body.exists)

\* C6: a 400 or 403 answer that is not the module-already-exists case ends
\* the call at once with an API error carrying its status and body: it is
\* the last answer of the call and no wait and no further send follow it.
C6_ClientErrorRaisesWithoutRetry ==
    \A i \in 1..Len(resps) :
        IsClientError(resps[i]) =>
            /\ i = Len(resps)
            /\ Len(sent) = i
            /\ pc = "done"
            /\ result = Raised(Exc("ApiError", resps[i].status, resps[i].body, "none"))

\* C6's case: a 403 whose body holds the already-exists text, after a retry
C6_Witness ==
    /\ pc = "done"
    /\ Len(resps) = 2
    /\ IsStatus(resps[2], 403)
    /\ resps[2].body.exists
    /\ result.kind = "raise"
    /\ result.exc.type = "ApiError"
    /\ result.exc.status = 403

\* C7: of two create_module calls with one name where the earlier got the
\* success answer and the later the 400 'already exists' answer, neither
\* raised and both returned the same identifier; and every call that ended
\* on one of these answers returned the identifier the service holds.
C7_CreateModuleIdempotent ==
    /\ \A i \in 1..Len(cmLog) :
          cmLog[i].last \in {"created", "exists"} =>
              /\ cmLog[i].id # 0
              /\ cmLog[i].id = modules[cmLog[i].name]
    /\ \A i \in 1..Len(cmLog) : \A j \in (i + 1)..Len(cmLog) :
          (/\ cmLog[i].name = cmLog[j].name
           /\ cmLog[i].last = "created"
           /\ cmLog[j].last = "exists") =>
              /\ cmLog[i].id # 0
              /\ cmLog[j].id = cmLog[i].id

\* C7's case: create_module("X") twice, created and then already existing
C7_Witness ==
    /\ Len(cmLog) = 2
    /\ cmLog[1] = [name |-> "X", last |-> "created", id |-> 1]
    /\ cmLog[2] = [name |-> "X", last |-> "exists", id |-> 1]

\* C8: a request that is no module creation and is answered with 400 ends
\* with an error, whatever the body says: the answer is never turned into a
\* result.
C8_ConversionOnlyForModuleCreation ==
    (/\ pc = "done"
     /\ ~IsModuleCreation(req)
     /\ Len(resps) >= 1
     /\ IsStatus(resps[Len(resps)], 400)) =>
        result.kind = "raise"

\* a key that is not set, empty or too short, or a workspace or project that
\* is not set or empty
BadCfg ==
    \/ cfg.key < MinKeyLen
    \/ cfg.workspace \in {Unset, ""}
    \/ cfg.project \in {Unset, ""}

\* C9: with such a configuration construction never gets as far as the
\* probe: nothing is ever sent, the client never becomes ready, and once
\* both checks have run construction has failed with a configuration error.
C9_BadConfigFailsBeforeAnyRequest ==
    BadCfg =>
        /\ sent = <<>>
        /\ probe = NoResponse
        /\ cpc \in {"new", "keyok", "failed"}
        /\ (cfg.key < MinKeyLen => cpc \in {"new", "failed"})
        /\ (cpc = "failed" => cerr \in {"InvalidKeyFormat", "MissingEnv"})

\* C9's case: a key one short of the minimum, refused with nothing sent
C9_Witness ==
    /\ cfg.key = MinKeyLen - 1
    /\ cfg.workspace = "ws"
    /\ cfg.project = "proj"
    /\ cpc = "failed"
    /\ cerr = "InvalidKeyFormat"
    /\ sent = <<>>

ConstructionEnded == cpc \in {"ready", "failed"}

\* C10 as stated: with a valid configuration construction succeeds exactly
\* when the probe's status is not 401.
C10_SucceedsIffNot401 ==
    (~BadCfg /\ ConstructionEnded /\ probe.kind = "response") =>
        (cpc = "ready" <=> probe.status # 401)

\* C10 as amended: with a valid configuration construction succeeds exactly
\* when the probe is answered with a status below 400; a 401, any other
\* status from 400 on and a transport failure make it fail.
C10_SucceedsIffProbeOk ==
    (~BadCfg /\ ConstructionEnded) =>
        /\ Len(sent) = 1
        /\ (cpc = "ready" <=> (probe.kind = "response" /\ probe.status < 400))
        /\ (cpc = "failed" =>
               cerr \in {"ValidationFailed:Authentication",
                         "ValidationFailed:HTTPError",
                         "ValidationFailed:Transport"})
        /\ (IsStatus(probe, 401) => cerr = "ValidationFailed:Authentication")

\* C10's case: a valid configuration whose probe is answered with 500
C10_Witness ==
    /\ ~BadCfg
    /\ cpc = "failed"
    /\ IsStatus(probe, 500)
    /\ cerr = "ValidationFailed:HTTPError"

\* ------------------------------------------- _make_request, a whole call

\* everything but the state of a multi-request operation
baseVars == <<consVars, jsonError, sent, reqVars>>

\* The loop run on the answers the service gives to the sends of one call,
\* from retries = n with k answers used: how the call ends, how many sends it
\* made and the last answer it got.  (With no answer left the call waits.)
RECURSIVE LoopFrom(_, _, _, _, _)
LoopFrom(method, answers, n, k, jsonErr) ==
    IF ~WhileCondition(n)
    THEN [out |-> LoopExit, sends |-> k, last |-> answers[k]]
    ELSE IF k >= Len(answers)
    THEN [out |-> NoOutcome, sends |-> k, last |-> NoResponse]
    ELSE LET step == LoopBody(method, answers[k + 1], n, jsonErr)
         IN IF step.act = "sleep"
            THEN LoopFrom(method, answers, NextRetries(n), k + 1, jsonErr)
            ELSE [out |-> step.out, sends |-> k + 1, last |-> answers[k + 1]]

MakeRequest(method, answers, jsonErr) == LoopFrom(method, answers, 0, 0, jsonErr)

\* the answers the requests of the multi-request operations get: a success
\* with an identifier, a success with an empty body, a transport failure, a
\* server error, a rate limit and a refused request
FlowAnswers ==
    {Response(200, NoHeader, JsonBody(FALSE, 1)),
     Response(200, NoHeader, EmptyBody),
     Failure("ConnectionError"),
     Response(500, NoHeader, TextBody(FALSE)),
     Response(429, NoHeader, TextBody(FALSE)),
     Response(400, NoHeader, JsonBody(FALSE, 0))}

\* one answer for each send a call may make
AnswerSeqs == [1..max_retries -> FlowAnswers]

\* the ways a call with the method may end: what it returns or raises
CallsOf(method, jsonErr) ==
    {MakeRequest(method, as, jsonErr).out : as \in AnswerSeqs}

Methods == {"GET", "POST", "DELETE"}

CallTable == [m \in Methods, j \in JsonErrorTypes |-> CallsOf(m, j)]

Calls(method, jsonErr) == CallTable[method, jsonErr]

\* a request as the wire sees it: the identifier is the one in the path
WireRequest(method, endpoint, id) ==
    [method |-> method, endpoint |-> endpoint, id |-> id]

\* --------------------------------------------- PlaneClient.create_issue

\* the issues create_issue is called with: a description or none, a module
\* identifier or none (0)
ModuleId == 7

Issues == [description : {"", "text"}, module_id : {0, ModuleId}]

\* if issue.description
ShouldCommentAlways(issue) == TRUE

ShouldComment(issue) == issue.description # ""

\* if issue.module_id
ShouldLink(issue) == issue.module_id # 0

\* response['id'] of a response without the key
NoIdError == Raised(Exc("KeyError", 0, EmptyBody, "id"))

\* the except clause around create_comment: what it lets through
CommentExceptReraises(out) == out

CommentExcept(out) == NoOutcome

\* create_issue after link_issue_to_module: its failure propagates, otherwise
\* the response of the issue-creation request is returned
LinkResultIgnoresFailure(out, response) == Returned(response)

LinkResult(out, response) ==
    IF out.kind = "raise" THEN out ELSE Returned(response)

\* the response of the issue-creation request, and how each of the three
\* steps went ("none": not reached)
IssueLocals ==
    [response |-> EmptyDict, post |-> "none", comment |-> "none", link |-> "none"]

\* create_issue is called
IssueInit ==
    /\ cfg = ValidCfg
    /\ cpc = "ready"
    /\ cerr = "none"
    /\ probe = Response(200, NoHeader, JsonBody(FALSE, 1))
    /\ RequestInit
    /\ fpc = "ci_post"
    /\ arg \in Issues
    /\ loc = IssueLocals
    /\ wire = <<>>
    /\ env = <<>>
    /\ logs = NoLogs
    /\ fres = NoOutcome

\* response = self._make_request('POST', endpoint, data)
IssuePost ==
    /\ fpc = "ci_post"
    /\ \E c \in Calls("POST", jsonError) :
          /\ wire' = Append(wire, WireRequest("POST", "issues/", 0))
          /\ IF c.kind = "raise"
             THEN /\ fres' = c
                  /\ fpc' = "ci_done"
                  /\ loc' = [loc EXCEPT !.post = "raised"]
             ELSE /\ loc' = [loc EXCEPT !.response = c.value, !.post = "returned"]
                  /\ fpc' = "ci_comment"
                  /\ UNCHANGED fres
    /\ UNCHANGED <<baseVars, arg, env, logs>>

\* the description is added as a comment, a failure is printed as a warning
IssueComment ==
    /\ fpc = "ci_comment"
    /\ IF ~ShouldComment(arg)
       THEN /\ loc' = [loc EXCEPT !.comment = "skipped"]
            /\ fpc' = "ci_link"
            /\ UNCHANGED <<wire, logs, fres>>
       ELSE IF loc.response.id = 0
       THEN LET thrown == CommentExcept(NoIdError)
            IN /\ loc' = [loc EXCEPT !.comment = "noid"]
               /\ logs' = [logs EXCEPT !.warnings = @ + 1]
               /\ fres' = thrown
               /\ fpc' = IF thrown.kind = "raise" THEN "ci_done" ELSE "ci_link"
               /\ UNCHANGED wire
       ELSE \E c \in Calls("POST", jsonError) :
               LET thrown == IF c.kind = "raise"
                             THEN CommentExcept(c) ELSE NoOutcome
               IN /\ wire' = Append(wire, WireRequest("POST",
                                  "issues/{issue_id}/comments/", loc.response.id))
                  /\ loc' = [loc EXCEPT !.comment =
                                IF c.kind = "raise" THEN "raised" ELSE "returned"]
                  /\ logs' = IF c.kind = "raise"
                             THEN [logs EXCEPT !.warnings = @ + 1] ELSE logs
                  /\ fres' = thrown
                  /\ fpc' = IF thrown.kind = "raise" THEN "ci_done" ELSE "ci_link"
    /\ UNCHANGED <<baseVars, arg, env>>

\* the issue is linked to its module, then the response is returned
IssueLink ==
    /\ fpc = "ci_link"
    /\ IF ~ShouldLink(arg)
       THEN /\ fres' = Returned(loc.response)
            /\ loc' = [loc EXCEPT !.link = "skipped"]
            /\ UNCHANGED wire
       ELSE IF loc.response.id = 0
       THEN /\ fres' = NoIdError
            /\ loc' = [loc EXCEPT !.link = "noid"]
            /\ UNCHANGED wire
       ELSE \E c \in Calls("POST", jsonError) :
               /\ wire' = Append(wire, WireRequest("POST",
                               "modules/{module_id}/module-issues/", arg.module_id))
               /\ loc' = [loc EXCEPT !.link =
                             IF c.kind = "raise" THEN "raised" ELSE "returned"]
               /\ fres' = LinkResult(c, loc.response)
    /\ fpc' = "ci_done"
    /\ UNCHANGED <<baseVars, arg, env, logs>>

IssueNext ==
    \/ IssuePost
    \/ IssueComment
    \/ IssueLink

SpecIssue == IssueInit /\ [][IssueNext]_vars

\* the requests of create_issue on the wire
IsCreateRequest(w) == w.method = "POST" /\ w.endpoint = "issues/"

IsCommentRequest(w) == w.method = "POST" /\ w.endpoint = "issues/{issue_id}/comments/"

IsLinkRequest(w) ==
    w.method = "POST" /\ w.endpoint = "modules/{module_id}/module-issues/"

\* C12: create_issue sends the issue creation first; a comment request only
\* second, only with a description and only after the issue creation
\* returned; a link request only last, only with a module identifier and only
\* once the comment step is over; and nothing after a failed issue creation.
C12_RequestOrder ==
    /\ Len(wire) <= 3
    /\ \A i \in 1..Len(wire) :
          /\ IsCreateRequest(wire[i]) <=> i = 1
          /\ IsCommentRequest(wire[i]) =>
                /\ i = 2
                /\ arg.description # ""
                /\ loc.post = "returned"
          /\ IsLinkRequest(wire[i]) =>
                /\ i = Len(wire)
                /\ arg.module_id # 0
                /\ loc.post = "returned"
                /\ loc.comment \in {"skipped", "noid", "returned", "raised"}
                /\ (arg.description # "" /\ loc.comment # "noid" =>
                        i = 3 /\ IsCommentRequest(wire[2]))
    /\ (loc.post = "raised" => Len(wire) = 1 /\ fpc = "ci_done" /\ fres.kind = "raise")

\* C12's case: all three requests, in order
C12_Witness ==
    /\ fpc = "ci_done"
    /\ Len(wire) = 3
    /\ IsCreateRequest(wire[1])
    /\ IsCommentRequest(wire[2])
    /\ IsLinkRequest(wire[3])
    /\ fres.kind = "return"

\* C13: once the comment call has failed a warning is recorded and
\* create_issue goes on to the link: it ends by raising only if the link
\* failed, the link is requested whenever there is a module identifier, no
\* delete is ever sent, and with the link made (or none asked for) the
\* response of the issue creation is returned.
C13_CommentFailureIsTolerated ==
    loc.comment = "raised" =>
        /\ logs.warnings = 1
        /\ fpc \in {"ci_link", "ci_done"}
        /\ \A i \in 1..Len(wire) : wire[i].method # "DELETE"
        /\ (fpc = "ci_link" => fres = NoOutcome)
        /\ (fpc = "ci_done" =>
               /\ (fres.kind = "raise" => loc.link = "raised")
               /\ (arg.module_id # 0 => IsLinkRequest(wire[Len(wire)]))
               /\ (loc.link \in {"returned", "skipped"} =>
                       fres = Returned(loc.response) /\ loc.response.id # 0))

\* C13's case: the comment failed, the link was made, the issue is returned
C13_Witness ==
    /\ fpc = "ci_done"
    /\ loc.comment = "raised"
    /\ loc.link = "returned"
    /\ logs.warnings = 1
    /\ fres = Returned(Dict(1))

\* C14: when the link request fails create_issue raises that failure, after
\* the issue was created and with no delete sent.
C14_LinkFailurePropagates ==
    loc.link = "raised" =>
        /\ fpc = "ci_done"
        /\ fres.kind = "raise"
        /\ fres.exc.type \in {"RetriesFailed", "MaxRetries", "ApiError"}
        /\ loc.post = "returned"
        /\ IsLinkRequest(wire[Len(wire)])
        /\ \A i \in 1..Len(wire) : wire[i].method # "DELETE"

\* C14's case: issue and comment created, the link refused
C14_Witness ==
    /\ fpc = "ci_done"
    /\ loc.post = "returned"
    /\ loc.comment = "returned"
    /\ loc.link = "raised"
    /\ fres.kind = "raise"
    /\ fres.exc.type = "ApiError"

\* ------------------------------------------- PlaneClient.cleanup_project

\* the bounds of the listings the service answers with
MaxModules == 2

MaxRecords == 2

\* a value inside an association record: a key that is absent, None, a
\* string, or an issue record with its identifier (0: none or empty)
Absent == [kind |-> "absent", id |-> 0]

NoneValue == [kind |-> "none", id |-> 0]

TextValue == [kind |-> "text", id |-> 0]

IssueDict(i) == [kind |-> "dict", id |-> i]

\* the association records of a module listing: a record with an 'id' of
\* its own or none, a record with an 'id' and the key 'issue' or
\* 'issue_detail' or both, a record whose 'issue' is a string, or an entry
\* that is no record at all
NonDictRecord ==
    [kind |-> "text", issue |-> Absent, issue_detail |-> Absent, id |-> 0]

Records ==
    {r \in [kind : {"dict"},
            issue : {Absent, NoneValue, IssueDict(0), IssueDict(1)},
            issue_detail : {Absent, IssueDict(2)},
            id : {0, 3}] :
        (r.issue = Absent /\ r.issue_detail = Absent) \/ r.id = 3}
    \cup {[kind |-> "dict", issue |-> TextValue,
           issue_detail |-> IssueDict(2), id |-> 3],
          NonDictRecord}

\* sequences of at most n elements of S
SeqsUpTo(S, n) == UNION {[1..k -> S] : k \in 0..n}

\* records that are issue records themselves, with an 'id'
PlainRecords ==
    {[kind |-> "dict", issue |-> Absent, issue_detail |-> Absent, id |-> i] :
        i \in {3, 4}}

\* the listings of a module that holds each of its issues once
PlainListings ==
    {l \in SeqsUpTo(PlainRecords, MaxRecords) :
        \A i, j \in 1..Len(l) : i # j => l[i] # l[j]}

RecordListings == SeqsUpTo(Records, MaxRecords)

\* the listings of the service by the kind of records it holds
ListingsOf(records) ==
    IF records = "plain" THEN PlainListings ELSE RecordListings

\* the module listings: distinct module identifiers in any order
ModuleListings ==
    {l \in SeqsUpTo(1..MaxModules, MaxModules) :
        \A i, j \in 1..Len(l) : i # j => l[i] # l[j]}

\* response.get('results', []): an answer without a body has no results
Results(response, listing) == IF response = EmptyDict THEN <<>> ELSE listing

\* the listings a call that ended with c may have been answered with
ListingsFor(c, listings) ==
    IF c.kind = "raise" \/ c.value = EmptyDict THEN {<<>>} ELSE listings

\* the issue record of an association record
IssueDataPrefersDetail(module_issue) ==
    IF module_issue.kind = "dict"
    THEN IF module_issue.issue_detail # Absent THEN module_issue.issue_detail
         ELSE IF module_issue.issue # Absent THEN module_issue.issue
         ELSE IssueDict(module_issue.id)
    ELSE NoneValue

IssueData(module_issue) ==
    IF module_issue.kind = "dict"
    THEN IF module_issue.issue # Absent THEN module_issue.issue
         ELSE IF module_issue.issue_detail # Absent THEN module_issue.issue_detail
         ELSE IssueDict(module_issue.id)
    ELSE NoneValue

\* if not issue_data or not isinstance(issue_data, dict)
InvalidIssueData(issue_data) == issue_data.kind # "dict"

\* if not issue_id
WithoutId(issue_data) == issue_data.id = 0

\* the except clause around one issue: what it lets through
IssueExceptReraises(out) == out

IssueExcept(out) == NoOutcome

\* the except clause around one module: what it lets through
ModuleExceptReraises(out) == out

ModuleExcept(out) == NoOutcome

\* the except clause around the whole of cleanup_project: it raises again
CleanupExcept(out) == out

\* a client that was constructed, with no request made since
ClientReady ==
    /\ cfg = ValidCfg
    /\ cpc = "ready"
    /\ cerr = "none"
    /\ probe = Response(200, NoHeader, JsonBody(FALSE, 1))
    /\ RequestInit

\* listing: the modules listed; modules: those still to process; module: the
\* one in hand; fetched: its issue listing succeeded; records: its
\* association records still to process; record, chosen, last: the record
\* processed last, its issue record, and what was done with it; listed: the
\* number of records listed so far; before: the warnings logged before the
\* module in hand; complete: no issue listing has failed; failed: the modules
\* whose issue listing failed
CleanupLocals ==
    [listing |-> <<>>, modules |-> <<>>, module |-> 0, fetched |-> FALSE,
     records |-> <<>>, record |-> NonDictRecord, chosen |-> NoneValue,
     last |-> "none", listed |-> 0, before |-> 0, complete |-> TRUE,
     failed |-> <<>>]

\* cleanup_project is called
CleanupCalled ==
    /\ ClientReady
    /\ fpc = "cp_modules"
    /\ arg = <<>>
    /\ loc = CleanupLocals
    /\ wire = <<>>
    /\ logs = NoLogs
    /\ fres = NoOutcome

\* on a project of several modules whose records are issue records
CleanupInit ==
    /\ CleanupCalled
    /\ env = [modules |-> ModuleListings, records |-> "plain"]

\* on a project of one module whose records have any shape
ShapesInit ==
    /\ CleanupCalled
    /\ env = [modules |-> {l \in ModuleListings : Len(l) <= 1},
              records |-> "shapes"]

\* modules = self.get_modules()
CleanupGetModules ==
    /\ fpc = "cp_modules"
    /\ \E c \in Calls("GET", jsonError) : \E l \in ListingsFor(c, env.modules) :
          /\ wire' = Append(wire, WireRequest("GET", "modules/", 0))
          /\ IF c.kind = "raise"
             THEN /\ fres' = CleanupExcept(c)
                  /\ logs' = [logs EXCEPT !.errors = @ + 1]
                  /\ fpc' = "cp_done"
                  /\ UNCHANGED loc
             ELSE /\ loc' = [loc EXCEPT !.listing = Results(c.value, l),
                                        !.modules = Results(c.value, l)]
                  /\ fpc' = "cp_module"
                  /\ UNCHANGED <<fres, logs>>
    /\ UNCHANGED <<baseVars, arg, env>>

\* for module in modules: module_issues = self.get_module_issues(module_id)
CleanupModule ==
    /\ fpc = "cp_module"
    /\ loc.modules # <<>>
    /\ LET module_id == Head(loc.modules)
       IN \E c \in Calls("GET", jsonError) : \E l \in ListingsFor(c, ListingsOf(env.records)) :
             /\ wire' = Append(wire, WireRequest("GET",
                             "modules/{module_id}/module-issues/", module_id))
             /\ IF c.kind = "raise"
                THEN /\ fres' = ModuleExcept(c)
                     /\ logs' = [logs EXCEPT !.errors = @ + 1]
                     /\ loc' = [loc EXCEPT !.modules = Tail(@),
                                           !.module = module_id,
                                           !.fetched = FALSE,
                                           !.records = <<>>,
                                           !.complete = FALSE,
                                           !.failed = Append(@, module_id)]
                     /\ arg' = <<>>
                     /\ fpc' = "cp_module"
                ELSE /\ loc' = [loc EXCEPT !.modules = Tail(@),
                                           !.module = module_id,
                                           !.fetched = TRUE,
                                           !.records = Results(c.value, l),
                                           !.listed = @ + Len(Results(c.value, l)),
                                           !.before = logs.warnings]
                     /\ arg' = Results(c.value, l)
                     /\ fpc' = "cp_issues"
                     /\ UNCHANGED <<fres, logs>>
    /\ UNCHANGED <<baseVars, env>>

\* for module_issue in module_issues: the record is normalised and its issue
\* deleted, or skipped with a warning
CleanupIssue ==
    /\ fpc = "cp_issues"
    /\ loc.records # <<>>
    /\ LET module_issue == Head(loc.records)
           issue_data == IssueData(module_issue)
       IN IF InvalidIssueData(issue_data) \/ WithoutId(issue_data)
          THEN /\ logs' = [logs EXCEPT !.warnings = @ + 1]
               /\ loc' = [loc EXCEPT !.records = Tail(@),
                                     !.record = module_issue,
                                     !.chosen = issue_data,
                                     !.last = "skipped"]
               /\ UNCHANGED <<wire, fres, fpc>>
          ELSE \E c \in Calls("DELETE", jsonError) :
                  LET thrown == IF c.kind = "raise"
                                THEN IssueExcept(c) ELSE NoOutcome
                  IN /\ wire' = Append(wire, WireRequest("DELETE",
                                     "issues/{issue_id}/", issue_data.id))
                     /\ logs' = IF c.kind = "raise"
                                THEN [logs EXCEPT !.errors = @ + 1] ELSE logs
                     /\ loc' = [loc EXCEPT
                                   !.records = IF thrown.kind = "raise"
                                               THEN <<>> ELSE Tail(@),
                                   !.record = module_issue,
                                   !.chosen = issue_data,
                                   !.last = IF c.kind = "raise"
                                            THEN "failed" ELSE "deleted"]
                     /\ fres' = IF thrown.kind = "raise"
                                THEN ModuleExcept(thrown) ELSE fres
                     /\ fpc' = IF thrown.kind = "raise"
                               THEN "cp_module" ELSE "cp_issues"
    /\ UNCHANGED <<baseVars, arg, env>>

\* self.delete_module(module_id), after all the issues of the module
CleanupDeleteModule ==
    /\ fpc = "cp_issues"
    /\ loc.records = <<>>
    /\ \E c \in Calls("DELETE", jsonError) :
          /\ wire' = Append(wire, WireRequest("DELETE",
                          "modules/{module_id}/", loc.module))
          /\ logs' = IF c.kind = "raise"
                     THEN [logs EXCEPT !.errors = @ + 1] ELSE logs
          /\ fres' = IF c.kind = "raise" THEN ModuleExcept(c) ELSE fres
    /\ loc' = [loc EXCEPT !.record = NonDictRecord,
                          !.chosen = NoneValue,
                          !.last = "none"]
    /\ fpc' = "cp_module"
    /\ UNCHANGED <<baseVars, arg, env>>

\* the loop over the modules is over: cleanup_project returns None
CleanupReturn ==
    /\ fpc = "cp_module"
    /\ loc.modules = <<>>
    /\ fres' = Returned(EmptyDict)
    /\ fpc' = "cp_done"
    /\ UNCHANGED <<baseVars, arg, loc, wire, env, logs>>

CleanupNext ==
    \/ CleanupGetModules
    \/ CleanupModule
    \/ CleanupIssue
    \/ CleanupDeleteModule
    \/ CleanupReturn

SpecCleanup == CleanupInit /\ [][CleanupNext]_vars

SpecShapes == ShapesInit /\ [][CleanupNext]_vars

\* the requests of cleanup_project on the wire
IssueDelete(i) == WireRequest("DELETE", "issues/{issue_id}/", i)

ModuleDelete(m) == WireRequest("DELETE", "modules/{module_id}/", m)

IssueListing(m) == WireRequest("GET", "modules/{module_id}/module-issues/", m)

DeletesOf(w) == SelectSeq(w, LAMBDA x : x.method = "DELETE")

IssueDeletesOf(w) ==
    SelectSeq(w, LAMBDA x : x.method = "DELETE" /\ x.endpoint = "issues/{issue_id}/")

ModuleDeletesOf(w) ==
    SelectSeq(w, LAMBDA x : x.method = "DELETE" /\ x.endpoint = "modules/{module_id}/")

IssueListingsOf(w) ==
    SelectSeq(w, LAMBDA x : x = IssueListing(x.id))

\* the deletes since the issue listing of the module in hand
RECURSIVE SinceListing(_)
SinceListing(w) ==
    IF w = <<>> \/ w[Len(w)].method = "GET" THEN <<>>
    ELSE Append(SinceListing(SubSeq(w, 1, Len(w) - 1)), w[Len(w)])

\* the identifier an association record leads to: the one of the value under
\* 'issue' if the record has that key, else of the value under
\* 'issue_detail' if it has that one, else its own (0: none that is usable)
ListedValue(rec) ==
    CASE rec.kind # "dict" -> NoneValue
      [] rec.kind = "dict" /\ rec.issue # Absent -> rec.issue
      [] rec.kind = "dict" /\ rec.issue = Absent /\ rec.issue_detail # Absent ->
             rec.issue_detail
      [] OTHER -> [kind |-> "dict", id |-> rec.id]

ListedId(rec) == IF ListedValue(rec).kind = "dict" THEN ListedValue(rec).id ELSE 0

AllUsable(records) == \A j \in 1..Len(records) : ListedId(records[j]) # 0

\* one delete per listed record, in listing order
RECURSIVE IssueDeletes(_)
IssueDeletes(records) ==
    IF records = <<>> THEN <<>>
    ELSE <<IssueDelete(ListedId(Head(records)))>> \o IssueDeletes(Tail(records))

\* the module in hand is done with
ModuleDone == fpc = "cp_module" /\ loc.module # 0 /\ loc.fetched

\* C15: cleanup_project raises only when the module listing fails; it lists
\* the issues of the modules in listing order; for a module whose issue
\* listing succeeded with usable identifiers only it makes one delete_issue
\* call per record in listing order and then the delete_module call,
\* whichever of them failed; so with every listing successful and every
\* identifier usable it returns after as many delete_issue calls as records
\* were listed and as many delete_module calls as modules were listed.
C15_CleanupDeletesEverything ==
    /\ (fpc = "cp_done" /\ fres.kind = "raise" => Len(wire) = 1)
    /\ (fpc = "cp_done" /\ fres.kind = "return" => loc.modules = <<>>)
    /\ (fpc # "cp_modules" =>
           IssueListingsOf(wire) =
              [i \in 1..(Len(loc.listing) - Len(loc.modules)) |->
                  IssueListing(loc.listing[i])])
    /\ (ModuleDone /\ AllUsable(arg) =>
           SinceListing(wire) = IssueDeletes(arg) \o <<ModuleDelete(loc.module)>>)
    /\ (fpc = "cp_done" /\ fres.kind = "return" /\ loc.complete /\ logs.warnings = 0 =>
           /\ Len(IssueDeletesOf(wire)) = loc.listed
           /\ ModuleDeletesOf(wire) =
                 [i \in 1..Len(loc.listing) |-> ModuleDelete(loc.listing[i])])

\* C15's case: two modules, two issues, and every one of the four deletes
\* failed
C15_Witness ==
    /\ fpc = "cp_done"
    /\ fres.kind = "return"
    /\ loc.complete
    /\ Len(loc.listing) = 2
    /\ loc.listed = 2
    /\ logs.warnings = 0
    /\ logs.errors = 4
    /\ Len(DeletesOf(wire)) = 4

\* the module listed after the i-th one has its issues listed next
NextListed(w, k, listing, i) ==
    IF i < Len(listing) THEN k < Len(w) /\ w[k + 1] = IssueListing(listing[i + 1])
    ELSE k = Len(w)

Unusable(records) == SelectSeq(records, LAMBDA r : ListedId(r) = 0)

Usable(records) == SelectSeq(records, LAMBDA r : ListedId(r) # 0)

\* the records of the module in hand that were processed
Processed == SubSeq(arg, 1, Len(arg) - Len(loc.records))

\* C16: the issue record cleanup_project takes from an association record is
\* the value under 'issue' if that key is present, else the value under
\* 'issue_detail' if present, else the record itself; a record whose value is
\* no record or has no identifier gets no delete_issue call and one warning,
\* nothing is raised, and the other records and the module delete still
\* happen.
C16_RecordNormalisation ==
    /\ (loc.last # "none" =>
           /\ loc.chosen = ListedValue(loc.record)
           /\ (ListedId(loc.record) = 0 <=> loc.last = "skipped"))
    /\ (fpc = "cp_issues" =>
           /\ fres.kind # "raise"
           /\ SinceListing(wire) = IssueDeletes(Usable(Processed))
           /\ logs.warnings = loc.before + Len(Unusable(Processed)))
    /\ (ModuleDone =>
           /\ fres.kind # "raise"
           /\ SinceListing(wire) =
                 IssueDeletes(Usable(arg)) \o <<ModuleDelete(loc.module)>>
           /\ logs.warnings = loc.before + Len(Unusable(arg)))

\* C16's case: a record whose 'issue' value is None although its
\* 'issue_detail' holds an issue is skipped, the record after it and the
\* module are deleted
C16_Witness ==
    /\ ModuleDone
    /\ Len(arg) = 2
    /\ arg[1].issue = NoneValue
    /\ arg[1].issue_detail = IssueDict(2)
    /\ ListedId(arg[2]) = 3
    /\ logs.warnings = loc.before + 1
    /\ SinceListing(wire) = <<IssueDelete(3), ModuleDelete(loc.module)>>

\* ------------------------------ PlaneClient.delete_all_issues_in_project

\* the issues of a project listing: issue records with an 'id' or none
ListedIssues == {IssueDict(i) : i \in 0..2}

IssueListings == SeqsUpTo(ListedIssues, MaxRecords)

\* the except clause around one delete_issue: what it lets through
DeleteExceptReraises(out) == out

DeleteExcept(out) == NoOutcome

\* the except clause around the whole of the method: what it lets through
DeleteAllExceptReraises(out) == out

DeleteAllExcept(out) == NoOutcome

\* issues: the issues still to process; listed: the listing succeeded
DeleteAllLocals == [issues |-> <<>>, listed |-> FALSE]

\* delete_all_issues_in_project is called
DeleteAllInit ==
    /\ ClientReady
    /\ fpc = "da_list"
    /\ arg = <<>>
    /\ loc = DeleteAllLocals
    /\ wire = <<>>
    /\ env = [issues |-> IssueListings]
    /\ logs = NoLogs
    /\ fres = NoOutcome

\* response = self._make_request('GET', endpoint)
DeleteAllList ==
    /\ fpc = "da_list"
    /\ \E c \in Calls("GET", jsonError) : \E l \in ListingsFor(c, env.issues) :
          /\ wire' = Append(wire, WireRequest("GET", "issues/", 0))
          /\ IF c.kind = "raise"
             THEN /\ fres' = IF DeleteAllExcept(c).kind = "raise"
                             THEN c ELSE Returned(EmptyDict)
                  /\ logs' = [logs EXCEPT !.errors = @ + 1]
                  /\ fpc' = "da_done"
                  /\ UNCHANGED <<loc, arg>>
             ELSE /\ loc' = [loc EXCEPT !.issues = Results(c.value, l),
                                        !.listed = TRUE]
                  /\ arg' = Results(c.value, l)
                  /\ fpc' = "da_issue"
                  /\ UNCHANGED <<fres, logs>>
    /\ UNCHANGED <<baseVars, env>>

\* for issue in issues: it is deleted, or skipped with a warning
DeleteAllIssue ==
    /\ fpc = "da_issue"
    /\ loc.issues # <<>>
    /\ LET issue == Head(loc.issues)
       IN IF WithoutId(issue)
          THEN /\ logs' = [logs EXCEPT !.warnings = @ + 1]
               /\ loc' = [loc EXCEPT !.issues = Tail(@)]
               /\ UNCHANGED <<wire, fres, fpc>>
          ELSE \E c \in Calls("DELETE", jsonError) :
                  LET thrown == IF c.kind = "raise"
                                THEN DeleteExcept(c) ELSE NoOutcome
                      ends == thrown.kind = "raise"
                  IN /\ wire' = Append(wire, WireRequest("DELETE",
                                     "issues/{issue_id}/", issue.id))
                     /\ logs' = [logs EXCEPT !.errors =
                                    IF c.kind = "raise" THEN @ + 1 ELSE @]
                     /\ loc' = [loc EXCEPT !.issues = Tail(@)]
                     /\ fres' = IF ~ends THEN fres
                                ELSE IF DeleteAllExcept(thrown).kind = "raise"
                                THEN thrown ELSE Returned(EmptyDict)
                     /\ fpc' = IF ends THEN "da_done" ELSE "da_issue"
    /\ UNCHANGED <<baseVars, arg, env>>

\* the loop over the issues is over: the method returns None
DeleteAllReturn ==
    /\ fpc = "da_issue"
    /\ loc.issues = <<>>
    /\ fres' = Returned(EmptyDict)
    /\ fpc' = "da_done"
    /\ UNCHANGED <<baseVars, arg, loc, wire, env, logs>>

DeleteAllNext ==
    \/ DeleteAllList
    \/ DeleteAllIssue
    \/ DeleteAllReturn

SpecDeleteAll == DeleteAllInit /\ [][DeleteAllNext]_vars

\* one delete per issue of the listing that has an identifier
RECURSIVE DeletesFor(_)
DeletesFor(issues) ==
    IF issues = <<>> THEN <<>>
    ELSE (IF Head(issues).id # 0 THEN <<IssueDelete(Head(issues).id)>> ELSE <<>>)
         \o DeletesFor(Tail(issues))

ProjectListing == WireRequest("GET", "issues/", 0)

\* C17: once the project listing has succeeded, delete_all_issues_in_project
\* makes, after the listing request, one delete_issue call for every listed
\* issue with an identifier, in listing order, and no other request (none
\* about a module), whichever of the deletes failed.
C17_DeleteAllDeletesEach ==
    /\ (fpc = "da_issue" =>
           wire = <<ProjectListing>>
                  \o DeletesFor(SubSeq(arg, 1, Len(arg) - Len(loc.issues))))
    /\ (fpc = "da_done" /\ loc.listed =>
           /\ wire = <<ProjectListing>> \o DeletesFor(arg)
           /\ \A i \in 1..Len(wire) :
                 wire[i].endpoint \in {"issues/", "issues/{issue_id}/"})

\* C17's case: two issues listed, both deletes failed
C17_Witness ==
    /\ fpc = "da_done"
    /\ loc.listed
    /\ arg = <<IssueDict(1), IssueDict(2)>>
    /\ logs.errors = 2
    /\ wire = <<ProjectListing, IssueDelete(1), IssueDelete(2)>>

\* C24: delete_all_issues_in_project never raises: it ends with the same
\* normal return whether every issue was deleted, some deletes failed or
\* the project listing itself failed; a failed listing is logged as one
\* error and no delete request is sent after it.
C24_DeleteAllNeverRaises ==
    /\ fres.kind # "raise"
    /\ (fpc = "da_done" => fres = Returned(EmptyDict))
    /\ (fpc = "da_done" /\ ~loc.listed =>
           /\ wire = <<ProjectListing>>
           /\ logs = [warnings |-> 0, errors |-> 1])

\* C24's case: the project listing failed and the call returned
C24_Witness ==
    /\ fpc = "da_done"
    /\ ~loc.listed
    /\ fres = Returned(EmptyDict)
    /\ wire = <<ProjectListing>>
    /\ logs.errors = 1

\* ------------------------------------------- PlaneClient.get_issue_types

\* a body whose text holds the words "Payment required"
PaymentBody ==
    [empty |-> FALSE, json |-> TRUE, exists |-> FALSE, id |-> 0, payment |-> TRUE]

HasPaymentText(b) == "payment" \in DOMAIN b /\ b.payment

\* the reason phrases a service may send with status 402: the standard one,
\* one in other letters, none
ReasonPhrases == {"Payment Required", "Payment required", ""}

\* the answers to the issue-types request: those of any request, and a
\* payment restriction reported as 402, with or without the words in the
\* body, or as 400 or 403 with the words in the body
TypesAnswers ==
    FlowAnswers
    \cup {Response(402, NoHeader, PaymentBody),
          Response(402, NoHeader, EmptyBody),
          Response(403, NoHeader, PaymentBody),
          Response(400, NoHeader, PaymentBody)}

TypesCallTable ==
    [j \in JsonErrorTypes |->
        {MakeRequest("GET", as, j) : as \in [1..max_retries -> TypesAnswers]}]

\* "Payment required" in str(e): the text of the exception of the 400/403
\* branch holds the body, the text of the exception after the last retry
\* holds the text of the HTTPError, which holds the status and the reason
\* phrase but not the body
PaymentRequiredIn(exc, reason) ==
    CASE exc.type = "ApiError" -> HasPaymentText(exc.body)
      [] exc.type = "RetriesFailed" /\ exc.cause = "HTTPError" /\ exc.status = 402 ->
             reason = "Payment required"
      [] OTHER -> FALSE

\* the issue types a successful answer lists
TypeListing == <<IssueDict(1)>>

\* the except clause of get_issue_types
GetIssueTypesExcept(out, reason) ==
    IF PaymentRequiredIn(out.exc, reason) THEN Returned(<<>>) ELSE out

\* get_issue_types is called
TypesInit ==
    /\ ClientReady
    /\ fpc = "gt_call"
    /\ arg = <<>>
    /\ loc = [last |-> NoResponse, sends |-> 0]
    /\ wire = <<>>
    /\ env \in [reason : ReasonPhrases]
    /\ logs = NoLogs
    /\ fres = NoOutcome

\* response = self._make_request('GET', endpoint), and what follows it
GetIssueTypes ==
    /\ fpc = "gt_call"
    /\ \E c \in TypesCallTable[jsonError] :
          /\ wire' = Append(wire, WireRequest("GET", "issue-types/", 0))
          /\ loc' = [last |-> c.last, sends |-> c.sends]
          /\ fres' = IF c.out.kind = "raise"
                     THEN GetIssueTypesExcept(c.out, env.reason)
                     ELSE Returned(Results(c.out.value, TypeListing))
    /\ fpc' = "gt_done"
    /\ UNCHANGED <<baseVars, arg, env, logs>>

TypesNext == GetIssueTypes

SpecTypes == TypesInit /\ [][TypesNext]_vars

\* the service reports a payment or plan restriction: status 402, or the
\* words in the body of an error answer
PaymentReported(r) ==
    /\ r.kind = "response"
    /\ r.status >= 400
    /\ (r.status = 402 \/ HasPaymentText(r.body))

\* C18: get_issue_types returns an empty list whenever the last answer to
\* the issue-types request reports a payment restriction, and raises when
\* the request fails in any other way.
C18_EmptyListOnPaymentRestriction ==
    fpc = "gt_done" =>
        /\ (PaymentReported(loc.last) => fres = Returned(<<>>))
        /\ (fres.kind = "raise" => ~PaymentReported(loc.last))

\* ------------------------------------------------------------------ main

\* the bound of the input file: issues per module
MaxIssues == 2

\* the command-line flags: --input given, --dry-run, --export given,
\* --cleanup, --delete-all-issues
Flags ==
    [input : BOOLEAN, dry_run : BOOLEAN, export : BOOLEAN,
     cleanup : BOOLEAN, delete_all_issues : BOOLEAN]

\* the environments main is started in: the key unset, too short or long
\* enough, the project set or not, PLANE_HOST set or not
MainCfgs ==
    {c \in Cfgs : /\ c.key \in {-1, MinKeyLen - 1, MinKeyLen}
                  /\ c.workspace = "ws"
                  /\ c.project \in {Unset, "proj"}}

Hosts == {Unset, "host"}

\* missing_vars: one of the four variables is unset or empty
MissingVars(c, host) ==
    ~(c.key > 0 /\ Truthy(c.workspace) /\ Truthy(c.project) /\ Truthy(host))

\* the answers to the probe of the client main constructs
MainProbeAnswers ==
    {Response(200, NoHeader, JsonBody(FALSE, 1)),
     Response(401, NoHeader, TextBody(FALSE)),
     Response(500, NoHeader, TextBody(FALSE)),
     Failure("ConnectionError")}

\* what PlaneClient() raises in the environment c when its probe is
\* answered with r ("none": it returns a client)
ConstructionError(c, r) ==
    IF KeyInvalid(c.key) THEN "InvalidKeyFormat"
    ELSE IF IdsMissing(c) THEN "MissingEnv"
    ELSE ProbeError(r)

\* whether the constructor gets as far as its probe
SendsProbe(c) == ~KeyInvalid(c.key) /\ ~IdsMissing(c)

\* the try block of main around PlaneClient(): an exception ends main
ConstructionFatalNever(err) == FALSE

ConstructionFatal(err) == err # "none"

\* the loaded work packages: modules by name in file order, each with the
\* number of its issues
WorkPackages ==
    {p \in SeqsUpTo([name : Names, issues : 0..MaxIssues], Cardinality(Names)) :
        \A i, j \in 1..Len(p) : i # j => p[i].name # p[j].name}

\* the descriptions of the issues of the input file
Descriptions == {"", "text"}

\* the try block of main around one module: whether a create_issue call that
\* ended like this ends the module; created_issue['id'] is read for the log
IssueFailed(out) == out.kind = "raise" \/ out.value.id = 0

ModuleAbortedNever(out) == FALSE

ModuleAborted(out) == IssueFailed(out)

\* all: the work packages loaded; packages: those still to import; module:
\* the one in hand and module_id its identifier; left: the number of its
\* issues still to create; attempted: the create_issue calls made for it;
\* done: the modules done with, with the create_issue calls made for each
\* and whether it ended in the except clause
ImportLocals ==
    [all |-> <<>>, packages |-> <<>>, module |-> "none", module_id |-> 0,
     issues |-> 0, left |-> 0, attempted |-> 0, done |-> <<>>]

ModuleRecord(l, failed) ==
    [name |-> l.module, issues |-> l.issues, attempted |-> l.attempted,
     failed |-> failed]

\* ---------------------------------------------- export_issues and the file

\* the name of the module with identifier m
ModuleName(m) == <<"module", m>>

\* the issue records a module listing holds for the export: a record is a
\* dict with the keys of its domain
ExportRecords ==
    {[id |-> 1, name |-> "x"], [id |-> 2, name |-> "y"],
     [name |-> "x"], [id |-> 3]}

\* the listings of a module: each of its records once, in any order
ExportListings ==
    {l \in SeqsUpTo(ExportRecords, MaxRecords) :
        \A i, j \in 1..Len(l) : i # j => l[i] # l[j]}

\* the comments an issue may have
CommentListings == {<<>>, <<[comment |-> "c", created_at |-> "t"]>>}

\* a dict in insertion order: d[k] = v
DictSet(d, k, v) ==
    IF \E i \in 1..Len(d) : d[i].key = k
    THEN [i \in 1..Len(d) |->
             IF d[i].key = k THEN [key |-> k, value |-> v] ELSE d[i]]
    ELSE Append(d, [key |-> k, value |-> v])

\* d[k].append(x), for a key the dict holds
DictAppend(d, k, x) ==
    [i \in 1..Len(d) |->
        IF d[i].key = k THEN [key |-> k, value |-> Append(d[i].value, x)]
        ELSE d[i]]

\* json.dump of a dict: the members of a JSON object in insertion order
json_dump(d) == [members |-> d]

\* json.load: the dict of the members, a repeated key keeping its last value
RECURSIVE DictOf(_, _)
DictOf(members, d) ==
    IF members = <<>> THEN d
    ELSE DictOf(Tail(members), DictSet(d, Head(members).key, Head(members).value))

json_load(text) == DictOf(text.members, <<>>)

\* the dict export_issues appends for an issue
ExportedIssue(issue, comments) ==
    [kind |-> "dict", name |-> issue.name, id |-> issue.id,
     comments |-> [i \in 1..Len(comments) |->
                      [text |-> comments[i].comment,
                       created_at |-> comments[i].created_at]]]

\* ModuleIssue(body, description) of an issue of the input file: a dict with
\* 'name' and 'description', or a string
ModuleIssueOf(issue) ==
    IF issue.kind = "dict"
    THEN [body |-> issue.name, description |-> issue.description]
    ELSE [body |-> issue.text, description |-> <<"Task: ", issue.text>>]

\* the key a dict issue of the input file lacks, "" if none
MissingKey(issue) ==
    IF issue.kind # "dict" THEN ""
    ELSE IF "name" \notin DOMAIN issue THEN "name"
    ELSE IF "description" \notin DOMAIN issue THEN "description"
    ELSE ""

\* the issues of the file in the order load_work_packages reads them
RECURSIVE FileIssues(_)
FileIssues(data) ==
    IF data = <<>> THEN <<>> ELSE Head(data).value \o FileIssues(Tail(data))

\* load_work_packages: what it raises after logging it, or nothing
LoadError(text) ==
    LET bad == SelectSeq(FileIssues(json_load(text)),
                         LAMBDA issue : MissingKey(issue) # "")
    IN IF bad = <<>> THEN NoOutcome
       ELSE Raised(Exc("KeyError", 0, EmptyBody, MissingKey(Head(bad))))

\* load_work_packages: the dict it returns when nothing is raised
load_work_packages(text) ==
    LET data == json_load(text)
    IN [i \in 1..Len(data) |->
           [key |-> data[i].key,
            value |-> [j \in 1..Len(data[i].value) |->
                          ModuleIssueOf(data[i].value[j])]]]

\* modules: the modules still to export; module_name: the name of the one
\* in hand; issues: its issues still to export; export_data: the dict built
\* so far; file: the file written, if any; listed: the modules and issues
\* the service listed; loaded: what load_work_packages returned for the file
ExportLocals ==
    [modules |-> <<>>, module_name |-> ModuleName(0), issues |-> <<>>,
     export_data |-> <<>>, file |-> <<>>, listed |-> <<>>, loaded |-> <<>>]

\* the except clause of export_issues: the error is logged and raised again
ExportExcept(out) == out

\* main is started
MainInit ==
    /\ cfg \in MainCfgs
    /\ cpc = "new"
    /\ cerr = "none"
    /\ probe = NoResponse
    /\ RequestInit
    /\ fpc = "m_start"
    /\ arg = <<>>
    /\ loc = <<>>
    /\ wire = <<>>
    /\ env \in [flags : Flags, host : Hosts,
                modules : {{l \in ModuleListings : Len(l) <= 1}},
                records : {"plain"},
                issues : {IssueListings}]
    /\ logs = NoLogs
    /\ fres = NoOutcome

\* the check of the required environment variables
MainCheckEnv ==
    /\ fpc = "m_start"
    /\ IF MissingVars(cfg, env.host)
       THEN /\ logs' = [logs EXCEPT !.errors = @ + 1]
            /\ fpc' = "m_done"
       ELSE /\ fpc' = "m_client"
            /\ UNCHANGED logs
    /\ UNCHANGED <<baseVars, arg, loc, wire, env, fres>>

\* client = PlaneClient()
MainConstruct ==
    /\ fpc = "m_client"
    /\ \E r \in MainProbeAnswers :
          LET err == ConstructionError(cfg, r)
          IN /\ IF SendsProbe(cfg)
                THEN /\ sent' = Append(sent, [req |-> ProbeRequest, at |-> now])
                     /\ probe' = r
                ELSE UNCHANGED <<sent, probe>>
             /\ cerr' = err
             /\ cpc' = IF err = "none" THEN "ready" ELSE "failed"
             /\ logs' = IF err = "none" THEN logs
                        ELSE [logs EXCEPT !.errors = @ + 1]
             /\ fpc' = IF ConstructionFatal(err) THEN "m_done" ELSE "m_mode"
    /\ UNCHANGED <<cfg, jsonError, reqVars, arg, loc, wire, env, fres>>

\* the mode the flags ask for, in the order main looks at them
MainMode ==
    /\ fpc = "m_mode"
    /\ IF env.flags.cleanup
       THEN /\ fpc' = "cp_modules"
            /\ loc' = CleanupLocals
            /\ UNCHANGED logs
       ELSE IF env.flags.export
       THEN /\ fpc' = "ex_modules"
            /\ loc' = ExportLocals
            /\ UNCHANGED logs
       ELSE IF env.flags.delete_all_issues
       THEN /\ fpc' = "da_list"
            /\ loc' = DeleteAllLocals
            /\ UNCHANGED logs
       ELSE IF ~env.flags.input
       THEN /\ fpc' = "m_done"
            /\ logs' = [logs EXCEPT !.errors = @ + 1]
            /\ UNCHANGED loc
       ELSE /\ fpc' = "m_load"
            /\ UNCHANGED <<loc, logs>>
    /\ UNCHANGED <<baseVars, arg, wire, env, fres>>

\* work_packages = load_work_packages(args.input), and the dry run
MainLoad ==
    /\ fpc = "m_load"
    /\ \/ /\ logs' = [logs EXCEPT !.errors = @ + 2]
          /\ fpc' = "m_done"
          /\ UNCHANGED loc
       \/ \E p \in WorkPackages :
             /\ loc' = [ImportLocals EXCEPT !.all = p, !.packages = p]
             /\ fpc' = IF env.flags.dry_run THEN "m_done" ELSE "m_types"
             /\ UNCHANGED logs
    /\ UNCHANGED <<baseVars, arg, wire, env, fres>>

\* issue_types = client.get_issue_types(): a failure is logged as a warning
MainIssueTypes ==
    /\ fpc = "m_types"
    /\ \E c \in Calls("GET", jsonError) :
          /\ wire' = Append(wire, WireRequest("GET", "issue-types/", 0))
          /\ logs' = IF c.kind = "raise"
                     THEN [logs EXCEPT !.warnings = @ + 1] ELSE logs
    /\ fpc' = "m_module"
    /\ UNCHANGED <<baseVars, arg, loc, env, fres>>

\* for module_name, issues in work_packages.items():
\* module_id = client.create_module(module_name)
MainCreateModule ==
    /\ fpc = "m_module"
    /\ loc.packages # <<>>
    /\ LET p == Head(loc.packages)
           l == [loc EXCEPT !.packages = Tail(@), !.module = p.name,
                            !.issues = p.issues, !.left = p.issues,
                            !.attempted = 0]
       IN \E c \in Calls("POST", jsonError) :
             LET r == CreateModuleResult(c)
             IN /\ wire' = Append(wire, WireRequest("POST", "modules/", 0))
                /\ IF r.kind = "raise"
                   THEN /\ logs' = [logs EXCEPT !.errors = @ + 1]
                        /\ loc' = [l EXCEPT !.done =
                                      Append(@, ModuleRecord(l, TRUE))]
                        /\ fpc' = "m_module"
                   ELSE /\ loc' = [l EXCEPT !.module_id = r.value.id]
                        /\ fpc' = "m_issue"
                        /\ UNCHANGED logs
    /\ UNCHANGED <<baseVars, arg, env, fres>>

\* for module_issue in issues: client.create_issue(issue) is called
MainCreateIssue ==
    /\ fpc = "m_issue"
    /\ loc.left > 0
    /\ \E d \in Descriptions :
          arg' = [description |-> d, module_id |-> loc.module_id]
    /\ loc' = [frame |-> [loc EXCEPT !.left = @ - 1, !.attempted = @ + 1]]
              @@ IssueLocals
    /\ fpc' = "ci_post"
    /\ UNCHANGED <<baseVars, wire, env, logs, fres>>

\* create_issue has returned or raised
MainIssueDone ==
    /\ fpc = "ci_done"
    /\ "frame" \in DOMAIN loc
    /\ logs' = IF IssueFailed(fres)
               THEN [logs EXCEPT !.errors = @ + 1] ELSE logs
    /\ IF ModuleAborted(fres)
       THEN /\ loc' = [loc.frame EXCEPT !.done =
                          Append(@, ModuleRecord(loc.frame, TRUE))]
            /\ fpc' = "m_module"
       ELSE /\ loc' = loc.frame
            /\ fpc' = "m_issue"
    /\ arg' = <<>>
    /\ fres' = NoOutcome
    /\ UNCHANGED <<baseVars, wire, env>>

\* the issues of the module are created
MainModuleDone ==
    /\ fpc = "m_issue"
    /\ loc.left = 0
    /\ loc' = [loc EXCEPT !.done = Append(@, ModuleRecord(loc, FALSE))]
    /\ fpc' = "m_module"
    /\ UNCHANGED <<baseVars, arg, wire, env, logs, fres>>

\* the modules are imported
MainImportDone ==
    /\ fpc = "m_module"
    /\ loc.packages = <<>>
    /\ fpc' = "m_done"
    /\ UNCHANGED <<baseVars, arg, loc, wire, env, logs, fres>>

\* export_issues: modules = client.get_modules()
ExportGetModules ==
    /\ fpc = "ex_modules"
    /\ \E c \in Calls("GET", jsonError) : \E l \in ListingsFor(c, env.modules) :
          /\ wire' = Append(wire, WireRequest("GET", "modules/", 0))
          /\ IF c.kind = "raise"
             THEN /\ fres' = ExportExcept(c)
                  /\ logs' = [logs EXCEPT !.errors = @ + 1]
                  /\ fpc' = "ex_done"
                  /\ UNCHANGED loc
             ELSE /\ loc' = [loc EXCEPT !.modules = Results(c.value, l)]
                  /\ fpc' = "ex_module"
                  /\ UNCHANGED <<fres, logs>>
    /\ UNCHANGED <<baseVars, arg, env>>

\* for module in modules: export_data[module_name] = [] and
\* module_issues = client.get_module_issues(module_id)
ExportModule ==
    /\ fpc = "ex_module"
    /\ loc.modules # <<>>
    /\ LET module_id == Head(loc.modules)
           module_name == ModuleName(module_id)
           l == [loc EXCEPT !.modules = Tail(@),
                            !.module_name = module_name,
                            !.export_data = DictSet(@, module_name, <<>>)]
       IN \E c \in Calls("GET", jsonError) :
          \E issues \in ListingsFor(c, ExportListings) :
             /\ wire' = Append(wire, WireRequest("GET",
                             "modules/{module_id}/module-issues/", module_id))
             /\ IF c.kind = "raise"
                THEN /\ fres' = ExportExcept(c)
                     /\ logs' = [logs EXCEPT !.errors = @ + 1]
                     /\ fpc' = "ex_done"
                     /\ loc' = l
                ELSE /\ loc' = [l EXCEPT
                                  !.issues = Results(c.value, issues),
                                  !.listed = Append(@,
                                     [name |-> module_name,
                                      issues |-> Results(c.value, issues)])]
                     /\ fpc' = "ex_issue"
                     /\ UNCHANGED <<fres, logs>>
    /\ UNCHANGED <<baseVars, arg, env>>

\* for issue in module_issues: comments = client.get_issue_comments(issue_id)
\* and the issue is appended with its comments
ExportIssue ==
    /\ fpc = "ex_issue"
    /\ loc.issues # <<>>
    /\ LET issue == Head(loc.issues)
       IN IF "id" \notin DOMAIN issue
          THEN /\ fres' = ExportExcept(NoIdError)
               /\ logs' = [logs EXCEPT !.errors = @ + 1]
               /\ fpc' = "ex_done"
               /\ UNCHANGED <<loc, wire>>
          ELSE \E c \in Calls("GET", jsonError) :
               \E comments \in ListingsFor(c, CommentListings) :
                  LET thrown ==
                          IF c.kind = "raise" THEN c
                          ELSE IF "name" \notin DOMAIN issue
                          THEN Raised(Exc("KeyError", 0, EmptyBody, "name"))
                          ELSE NoOutcome
                  IN /\ wire' = Append(wire, WireRequest("GET",
                                     "issues/{issue_id}/comments/", issue.id))
                     /\ IF thrown.kind = "raise"
                        THEN /\ fres' = ExportExcept(thrown)
                             /\ logs' = [logs EXCEPT !.errors = @ + 1]
                             /\ fpc' = "ex_done"
                             /\ UNCHANGED loc
                        ELSE /\ loc' = [loc EXCEPT
                                  !.issues = Tail(@),
                                  !.export_data = DictAppend(@, loc.module_name,
                                      ExportedIssue(issue,
                                          Results(c.value, comments)))]
                             /\ UNCHANGED <<fres, logs, fpc>>
    /\ UNCHANGED <<baseVars, arg, env>>

\* the issues of the module are exported
ExportModuleDone ==
    /\ fpc = "ex_issue"
    /\ loc.issues = <<>>
    /\ fpc' = "ex_module"
    /\ UNCHANGED <<baseVars, arg, loc, wire, env, logs, fres>>

\* json.dump(export_data, f): the export is written to the file
ExportWrite ==
    /\ fpc = "ex_module"
    /\ loc.modules = <<>>
    /\ loc' = [loc EXCEPT !.file = <<json_dump(loc.export_data)>>]
    /\ fres' = Returned(EmptyDict)
    /\ fpc' = "ex_done"
    /\ UNCHANGED <<baseVars, arg, wire, env, logs>>

ExportNext ==
    \/ ExportGetModules
    \/ ExportModule
    \/ ExportIssue
    \/ ExportModuleDone
    \/ ExportWrite

\* cleanup, export or deletion is over: main logs what was raised and returns
MainEnd ==
    /\ fpc \in {"cp_done", "ex_done", "da_done"}
    /\ logs' = IF fres.kind = "raise"
               THEN [logs EXCEPT !.errors = @ + 1] ELSE logs
    /\ fpc' = "m_done"
    /\ UNCHANGED <<baseVars, arg, loc, wire, env, fres>>

MainNext ==
    \/ MainCheckEnv
    \/ MainConstruct
    \/ MainMode
    \/ MainLoad
    \/ MainIssueTypes
    \/ MainCreateModule
    \/ MainCreateIssue
    \/ MainIssueDone
    \/ MainModuleDone
    \/ MainImportDone
    \/ IssueNext
    \/ CleanupNext
    \/ DeleteAllNext
    \/ ExportNext
    \/ MainEnd

SpecMain == MainInit /\ [][MainNext]_vars

\* the answer to the probe was 401
ProbeUnauthorized == probe.kind = "response" /\ probe.status = 401

\* C11: when the probe of the client main constructs is answered 401, the
\* probe is the one request sent, construction has raised the authentication
\* error, main has ended, and no POST or DELETE request is ever sent,
\* whatever the flags.
C11_AuthFailureIsFatal ==
    ProbeUnauthorized =>
        /\ Len(sent) = 1
        /\ sent[1].req = ProbeRequest
        /\ sent[1].at = now
        /\ cpc = "failed"
        /\ cerr = "ValidationFailed:Authentication"
        /\ fpc = "m_done"
        /\ \A i \in 1..Len(wire) : wire[i].method \notin {"POST", "DELETE"}

\* C11's case: --cleanup asked for, the probe answered 401, main over
C11_Witness ==
    /\ ProbeUnauthorized
    /\ env.flags.cleanup
    /\ fpc = "m_done"
    /\ Len(sent) = 1
    /\ logs.errors = 1

\* main is importing: past the dry run, in or between create_module and
\* create_issue calls, or done with them
Importing ==
    \/ fpc \in {"m_types", "m_module", "m_issue",
                "ci_post", "ci_comment", "ci_link", "ci_done"}
    \/ fpc = "m_done" /\ "done" \in DOMAIN loc /\ ~env.flags.dry_run

\* the local variables of main while a create_issue call runs
Frame == IF "frame" \in DOMAIN loc THEN loc.frame ELSE loc

ModuleInHand == fpc \in {"m_issue", "ci_post", "ci_comment", "ci_link", "ci_done"}

ModuleCreations(w) == SelectSeq(w, LAMBDA x : x = WireRequest("POST", "modules/", 0))

IssueCreations(w) == SelectSeq(w, IsCreateRequest)

RECURSIVE Attempted(_)
Attempted(done) ==
    IF done = <<>> THEN 0 ELSE Head(done).attempted + Attempted(Tail(done))

FailedModules(done) == SelectSeq(done, LAMBDA m : m.failed)

\* C19: in the import, the modules are taken in the order of the input and
\* each gets its create_module call whatever failed before; a module that
\* failed got one logged error and no create_issue call after the failure, a
\* module that did not fail got a create_issue call for every issue; no
\* delete is sent.
C19_ImportContinuesWithNextModule ==
    Importing =>
        LET f == Frame
            hand == IF ModuleInHand THEN 1 ELSE 0
        IN /\ Len(f.done) + hand + Len(f.packages) = Len(f.all)
           /\ \A k \in 1..Len(f.done) :
                 /\ f.done[k].name = f.all[k].name
                 /\ f.done[k].issues = f.all[k].issues
                 /\ f.done[k].attempted <= f.done[k].issues
                 /\ (~f.done[k].failed => f.done[k].attempted = f.done[k].issues)
           /\ Len(ModuleCreations(wire)) = Len(f.done) + hand
           /\ Len(IssueCreations(wire)) =
                 Attempted(f.done)
                 + (IF ModuleInHand THEN f.attempted ELSE 0)
                 - (IF fpc = "ci_post" THEN 1 ELSE 0)
           /\ logs.errors = Len(FailedModules(f.done))
           /\ \A i \in 1..Len(wire) : wire[i].method # "DELETE"
           /\ (fpc = "m_done" => f.packages = <<>> /\ Len(f.done) = Len(f.all))

\* C19's case: the first module failed at the first of its two issues, the
\* second module got both of its issues
C19_Witness ==
    /\ fpc = "m_done"
    /\ Importing
    /\ Len(loc.all) = 2
    /\ loc.done[1] = [name |-> loc.all[1].name, issues |-> 2, attempted |-> 1,
                      failed |-> TRUE]
    /\ loc.done[2] = [name |-> loc.all[2].name, issues |-> 2, attempted |-> 2,
                      failed |-> FALSE]
    /\ Len(ModuleCreations(wire)) = 2
    /\ Len(IssueCreations(wire)) = 3
    /\ logs.errors = 1

\* C20: with --dry-run given no request is sent, whatever the other flags.
C20_DryRunSendsNothing ==
    env.flags.dry_run => sent = <<>> /\ wire = <<>>

\* ------------------------------------------- the export given back as input

\* export_issues is called for a project
RoundTripInit ==
    /\ ClientReady
    /\ fpc = "ex_modules"
    /\ arg = <<>>
    /\ loc = ExportLocals
    /\ wire = <<>>
    /\ env = [modules |-> ModuleListings]
    /\ logs = NoLogs
    /\ fres = NoOutcome

\* the file export_issues wrote is given to load_work_packages
LoadExported ==
    /\ fpc = "ex_done"
    /\ loc.file # <<>>
    /\ LET text == Head(loc.file)
           thrown == LoadError(text)
       IN IF thrown.kind = "raise"
          THEN /\ fres' = thrown
               /\ logs' = [logs EXCEPT !.errors = @ + 1]
               /\ UNCHANGED loc
          ELSE /\ fres' = Returned(EmptyDict)
               /\ loc' = [loc EXCEPT !.loaded = load_work_packages(text)]
               /\ UNCHANGED logs
    /\ fpc' = "rt_done"
    /\ UNCHANGED <<baseVars, arg, wire, env>>

RoundTripNext ==
    \/ ExportNext
    \/ LoadExported

SpecRoundTrip == RoundTripInit /\ [][RoundTripNext]_vars

\* the names of the issues of a listing, and the bodies of loaded issues
IssueNames(issues) == {issues[i].name : i \in 1..Len(issues)}

IssueBodies(issues) == {issues[i].body : i \in 1..Len(issues)}

\* the issue names by module name, of the listed project and of the loaded
\* work packages
ListedNames(listed) ==
    {<<listed[i].name, IssueNames(listed[i].issues)>> : i \in 1..Len(listed)}

LoadedNames(loaded) ==
    {<<loaded[i].key, IssueBodies(loaded[i].value)>> : i \in 1..Len(loaded)}

\* C21: the file export_issues wrote for a project is loaded by
\* load_work_packages without error, and the loaded work packages have the
\* module names of the project and, per module, the names of its issues.
C21_ExportLoadsBack ==
    fpc = "rt_done" =>
        /\ fres.kind = "return"
        /\ LoadedNames(loc.loaded) = ListedNames(loc.listed)

====
